---- MODULE Spec2Model ----
(***************************************************************************)
(* A model of the Navy PdM maintenance backend (src/backend/app.py): three *)
(* tables (WorkOrder, Part, Notification) behind a JSON/HTTP API.  Every   *)
(* route handler is one action; the response of the request served last is *)
(* kept in resp.  Text columns that the search filter reads are sequences  *)
(* of one-character strings, so that SQL LIKE can be computed on them.     *)
(***************************************************************************)
EXTENDS Integers, Sequences, FiniteSets, TLC

VARIABLES
    workOrders,     \* table work_order: wo -> row
    parts,          \* table part: id -> row
    notifications,  \* table notification: id -> row
    now,            \* the value datetime.utcnow() returns
    dialect,        \* the database behind DATABASE_URL
    workers,        \* what each server process holds of a request in progress
    req,            \* the request served last
    resp            \* the response to it

vars == <<workOrders, parts, notifications, now, dialect, workers, req, resp>>

-----------------------------------------------------------------------------
(* Bounds of the model *)

MaxClock == 1
MaxPage == 2
MaxLimit == 2
MaxStock == 4
MaxBulk == 2
MaxWorkers == 2

-----------------------------------------------------------------------------
(* Values *)

\* Python None / SQL NULL / JSON null
Null == "null"

\* the databases the connection string may name; sqlite is the default
Dialects == {"sqlite", "postgresql"}

EmptyTable == [k \in {} |-> Null]

EmptyArgs == [k \in {} |-> Null]

Min(a, b) == IF a < b THEN a ELSE b

Max(a, b) == IF a > b THEN a ELSE b

\* datetime.isoformat(): the timestamp as text
IsoFormat(t) == [iso |-> t]

\* dict.get(key): the value, or None when the key is missing
DictGet(data, key) == IF key \in DOMAIN data THEN data[key] ELSE Null

\* flask's jsonify(...) with a status code
Response(op, status, body) == [op |-> op, status |-> status, body |-> body]

\* {'message': '<Entity> not found'}, 404
NotFound(op, message) == Response(op, 404, [message |-> message])

\* an exception that leaves the handler: flask answers 500
ServerError(op) == Response(op, 500, [error |-> "Internal Server Error"])

NoResponse == Response("none", 0, [message |-> "none"])

NoRequest == [op |-> "none"]

-----------------------------------------------------------------------------
(* WorkOrder *)

W1 == <<"W", "1">>
W2 == <<"W", "2">>
W3 == <<"W", "3">>
W4 == <<"W", "4">>

Cole == <<"C", "o", "l", "e">>
Bain == <<"B", "a", "i", "n">>
Vib == <<"V", "i", "b">>
Oil == <<"O", "i", "l">>

\* the mapped columns of WorkOrder
WorkOrderColumns ==
    {"wo", "ship", "homeport", "fm", "gte", "priority", "status", "eta",
     "symptoms", "recommended_action", "parts_required", "sla_category",
     "created_at", "updated_at"}

\* attributes of a WorkOrder instance that are not columns
WorkOrderOtherAttrs == {"to_dict"}

\* the keys create_work_order reads with data[...]
WorkOrderRequired ==
    {"wo", "ship", "homeport", "fm", "gte", "priority", "status", "eta"}

\* WorkOrder.to_dict
WorkOrderToDict(row) ==
    [wo |-> row.wo,
     ship |-> row.ship,
     homeport |-> row.homeport,
     fm |-> row.fm,
     gte |-> row.gte,
     priority |-> row.priority,
     status |-> row.status,
     eta |-> row.eta,
     symptoms |-> row.symptoms,
     recommendedAction |-> row.recommended_action,
     partsRequired |-> row.parts_required,
     slaCategory |-> row.sla_category,
     createdAt |-> IsoFormat(row.created_at),
     updatedAt |-> IsoFormat(row.updated_at)]

\* a faulty constructor call: two optional fields change places
NewWorkOrderSwapped(data, t) ==
    [wo |-> data["wo"],
     ship |-> data["ship"],
     homeport |-> data["homeport"],
     fm |-> data["fm"],
     gte |-> data["gte"],
     priority |-> data["priority"],
     status |-> data["status"],
     eta |-> data["eta"],
     symptoms |-> DictGet(data, "symptoms"),
     recommended_action |-> DictGet(data, "partsRequired"),
     parts_required |-> DictGet(data, "recommendedAction"),
     sla_category |-> DictGet(data, "slaCategory"),
     created_at |-> t,
     updated_at |-> t]

\* WorkOrder(...) as create_work_order builds it; the column defaults fill
\* created_at and updated_at at insert
NewWorkOrder(data, t) ==
    [wo |-> data["wo"],
     ship |-> data["ship"],
     homeport |-> data["homeport"],
     fm |-> data["fm"],
     gte |-> data["gte"],
     priority |-> data["priority"],
     status |-> data["status"],
     eta |-> data["eta"],
     symptoms |-> DictGet(data, "symptoms"),
     recommended_action |-> DictGet(data, "recommendedAction"),
     parts_required |-> DictGet(data, "partsRequired"),
     sla_category |-> DictGet(data, "slaCategory"),
     created_at |-> t,
     updated_at |-> t]

\* the DateTime columns of WorkOrder
WorkOrderTimestamps == {"created_at", "updated_at"}

\* the timestamp a database reads from the text of a JSON value; the row
\* holds the text until the commit and the timestamp after it
ParseIso(text) == text.iso

\* the commit of a DateTime column set from JSON text: the SQLite type takes
\* datetime objects only and raises, PostgreSQL casts the text.  updated_at is
\* set to a datetime after the loop, so created_at is the one that matters
CommitRejected(items, d) ==
    /\ d = "sqlite"
    /\ \E i \in 1..Len(items) : items[i][1] = "created_at"

\* one turn of the loop over data.items() in update_work_order
WorkOrderSetKey(row, key, value) ==
    IF key \in WorkOrderTimestamps THEN [row EXCEPT ![key] = ParseIso(value)]
    ELSE IF key \in WorkOrderColumns THEN [row EXCEPT ![key] = value]
    ELSE IF key \in WorkOrderOtherAttrs THEN row
    ELSE IF key = "recommendedAction" THEN [row EXCEPT !.recommended_action = value]
    ELSE IF key = "partsRequired" THEN [row EXCEPT !.parts_required = value]
    ELSE IF key = "slaCategory" THEN [row EXCEPT !.sla_category = value]
    ELSE row

RECURSIVE WorkOrderSetItems(_, _)
\* the loop over data.items(): items is the sequence of <<key, value>>
WorkOrderSetItems(row, items) ==
    IF items = <<>> THEN row
    ELSE WorkOrderSetItems(WorkOrderSetKey(row, Head(items)[1], Head(items)[2]),
                           Tail(items))

\* the fields a PATCH sets on a found work order, then the timestamp
WorkOrderPatched(row, items, t) ==
    [WorkOrderSetItems(row, items) EXCEPT !.updated_at = t]

\* setattr(work_order, 'to_dict', value) hides the method: to_dict() raises
ShadowsToDict(items) == \E i \in 1..Len(items) : items[i][1] \in WorkOrderOtherAttrs

\* the primary key a row is to get is that of another row: the UPDATE raises
\* IntegrityError
KeyTaken(table, id, key) == key # id /\ key \in DOMAIN table

\* the table after a flush that did not raise: rows is the session's rows under
\* the keys they were loaded by, pk the primary-key attribute; every row is
\* stored under the value of its primary key (UPDATE .. SET pk = new WHERE
\* pk = old)
Flushed(rows, pk) ==
    IF \A j \in DOMAIN rows : rows[j][pk] = j THEN rows
    ELSE [k \in {rows[j][pk] : j \in DOMAIN rows} |->
             rows[CHOOSE j \in DOMAIN rows : rows[j][pk] = k]]

\* GET /api/work-orders/<wo_id>
GetWorkOrderResponse(table, id) ==
    IF id \notin DOMAIN table
    THEN NotFound("get_work_order", "Work order not found")
    ELSE Response("get_work_order", 200, WorkOrderToDict(table[id]))

GetWorkOrder(id) ==
    /\ req' = [op |-> "get_work_order", id |-> id]
    /\ resp' = GetWorkOrderResponse(workOrders, id)
    /\ UNCHANGED <<workOrders, parts, notifications, now, dialect, workers>>

\* POST /api/work-orders
CreateWorkOrder(data) ==
    /\ req' = [op |-> "create_work_order", data |-> data]
    /\ IF ~(WorkOrderRequired \subseteq DOMAIN data)
       THEN \* KeyError from data[...]
            /\ resp' = ServerError("create_work_order")
            /\ UNCHANGED workOrders
       ELSE IF data["wo"] \in DOMAIN workOrders
       THEN \* IntegrityError at commit: the primary key exists
            /\ resp' = ServerError("create_work_order")
            /\ UNCHANGED workOrders
       ELSE /\ workOrders' = workOrders @@ (data["wo"] :> NewWorkOrder(data, now))
            /\ resp' = Response("create_work_order", 201,
                                WorkOrderToDict(NewWorkOrder(data, now)))
    /\ UNCHANGED <<parts, notifications, now, dialect, workers>>

\* PATCH /api/work-orders/<wo_id>
UpdateWorkOrder(id, items) ==
    /\ req' = [op |-> "update_work_order", id |-> id, data |-> items]
    /\ IF id \notin DOMAIN workOrders
       THEN /\ resp' = NotFound("update_work_order", "Work order not found")
            /\ UNCHANGED workOrders
       ELSE IF CommitRejected(items, dialect)
       THEN /\ resp' = ServerError("update_work_order")
            /\ UNCHANGED workOrders
       ELSE LET row == WorkOrderPatched(workOrders[id], items, now)
            IN IF KeyTaken(workOrders, id, row.wo)
               THEN /\ resp' = ServerError("update_work_order")
                    /\ UNCHANGED workOrders
               ELSE /\ workOrders' = Flushed([workOrders EXCEPT ![id] = row], "wo")
                    /\ resp' = IF ShadowsToDict(items)
                               THEN ServerError("update_work_order")
                               ELSE Response("update_work_order", 200,
                                             WorkOrderToDict(workOrders'[row.wo]))
    /\ UNCHANGED <<parts, notifications, now, dialect, workers>>

\* a faulty handler: the notifications that name the work order go with it
DeleteWorkOrderCascading(id) ==
    /\ req' = [op |-> "delete_work_order", id |-> id]
    /\ IF id \notin DOMAIN workOrders
       THEN /\ resp' = NotFound("delete_work_order", "Work order not found")
            /\ UNCHANGED <<workOrders, notifications>>
       ELSE /\ workOrders' = [k \in DOMAIN workOrders \ {id} |-> workOrders[k]]
            /\ notifications' =
                   [k \in {n \in DOMAIN notifications :
                              ToString(notifications[n].work_order_id) # ToString(id)} |-> notifications[k]]
            /\ resp' = Response("delete_work_order", 200,
                                [message |-> "Work order deleted successfully"])
    /\ UNCHANGED <<parts, now, dialect, workers>>

\* DELETE /api/work-orders/<wo_id>
DeleteWorkOrder(id) ==
    /\ req' = [op |-> "delete_work_order", id |-> id]
    /\ IF id \notin DOMAIN workOrders
       THEN /\ resp' = NotFound("delete_work_order", "Work order not found")
            /\ UNCHANGED workOrders
       ELSE /\ workOrders' = [k \in DOMAIN workOrders \ {id} |-> workOrders[k]]
            /\ resp' = Response("delete_work_order", 200,
                                [message |-> "Work order deleted successfully"])
    /\ UNCHANGED <<parts, notifications, now, dialect, workers>>

RECURSIVE BulkApplyUntilMissing(_, _, _)
\* a faulty loop: it stops at the first entry whose id is not found
BulkApplyUntilMissing(table, updates, t) ==
    IF updates = <<>> THEN table
    ELSE LET u == Head(updates)
         IN IF u.id \in DOMAIN table
            THEN BulkApplyUntilMissing(
                     [table EXCEPT ![u.id] = WorkOrderPatched(table[u.id], u.updates, t)],
                     Tail(updates), t)
            ELSE table

\* the work order numbers of the model, ascending
WorkOrderIds == <<W1, W2, W3, W4>>

\* the session of a request: the rows under the keys they were loaded by, the
\* keys of the loaded rows, updated_orders as keys with the positions of their
\* entries, the position of the entry that raised KeyError (0: none), and
\* whether a flush raised IntegrityError
NewSession(table) ==
    [rows |-> table, loaded |-> {}, updated |-> <<>>, entries |-> <<>>,
     fault |-> 0, raised |-> FALSE]

\* the rows whose primary key was set to another value, as <<old, new>> in the
\* order of their UPDATE statements: the unit of work sorts by the old key
PendingMoves(rows) ==
    LET moved == SelectSeq(WorkOrderIds,
                           LAMBDA k : k \in DOMAIN rows /\ rows[k].wo # k)
    IN [i \in 1..Len(moved) |-> <<moved[i], rows[moved[i]].wo>>]

RECURSIVE MovesFit(_, _)
\* the UPDATE statements of a flush, one row at a time: keys is the set of
\* primary keys in the table, a move to a key that is in it raises
MovesFit(keys, moves) ==
    IF moves = <<>> THEN TRUE
    ELSE /\ Head(moves)[2] \notin keys
         /\ MovesFit((keys \ {Head(moves)[1]}) \cup {Head(moves)[2]}, Tail(moves))

\* the flush of a session: autoflush before a SELECT, or the commit
FlushSession(s) ==
    IF PendingMoves(s.rows) = <<>> THEN s
    ELSE IF ~MovesFit(DOMAIN s.rows, PendingMoves(s.rows))
    THEN [s EXCEPT !.raised = TRUE]
    ELSE [s EXCEPT !.rows = Flushed(s.rows, "wo"),
                   !.loaded = {s.rows[k].wo : k \in s.loaded},
                   !.updated = [i \in 1..Len(s.updated) |-> s.rows[s.updated[i]].wo]]

\* WorkOrder.query.get(id): a loaded row is taken from the identity map by
\* the key it was loaded by; otherwise the session is flushed and the row
\* selected by its primary key
SessionGet(s, id) ==
    IF id \in s.loaded THEN s
    ELSE LET f == FlushSession(s)
         IN IF f.raised \/ id \notin DOMAIN f.rows THEN f
            ELSE [f EXCEPT !.loaded = @ \cup {id}]

RECURSIVE BulkLoopFirstWins(_, _, _, _)
\* a faulty loop: a row that an entry has updated is not updated again
BulkLoopFirstWins(s, updates, i, t) ==
    IF i > Len(updates) \/ s.fault # 0 \/ s.raised THEN s
    ELSE IF "id" \notin DOMAIN updates[i] THEN [s EXCEPT !.fault = i]
    ELSE LET id == updates[i].id
             g == SessionGet(s, id)
         IN IF g.raised THEN g
            ELSE IF id \notin g.loaded THEN BulkLoopFirstWins(g, updates, i + 1, t)
            ELSE IF "updates" \notin DOMAIN updates[i] THEN [g EXCEPT !.fault = i]
            ELSE BulkLoopFirstWins(
                     [g EXCEPT !.rows[id] =
                                  IF \E k \in 1..Len(g.updated) : g.updated[k] = id
                                  THEN @
                                  ELSE WorkOrderPatched(@, updates[i].updates, t),
                               !.updated = Append(@, id),
                               !.entries = Append(@, i)],
                     updates, i + 1, t)

RECURSIVE BulkLoop(_, _, _, _)
\* the loop over data['updates'] in bulk_update_work_orders from entry i on:
\* entries whose id is not found are passed over, an exception ends the loop
BulkLoop(s, updates, i, t) ==
    IF i > Len(updates) \/ s.fault # 0 \/ s.raised THEN s
    ELSE IF "id" \notin DOMAIN updates[i] THEN [s EXCEPT !.fault = i]
    ELSE LET id == updates[i].id
             g == SessionGet(s, id)
         IN IF g.raised THEN g
            ELSE IF id \notin g.loaded THEN BulkLoop(g, updates, i + 1, t)
            ELSE IF "updates" \notin DOMAIN updates[i] THEN [g EXCEPT !.fault = i]
            ELSE BulkLoop([g EXCEPT !.rows[id] =
                                        WorkOrderPatched(@, updates[i].updates, t),
                                    !.updated = Append(@, id),
                                    !.entries = Append(@, i)],
                          updates, i + 1, t)

\* the session after the loop and the flush of db.session.commit()
BulkSession(table, updates, t) ==
    LET s == BulkLoop(NewSession(table), updates, 1, t)
    IN IF s.fault # 0 \/ s.raised THEN s ELSE FlushSession(s)

\* the rows the loop and the commit leave in the table; a flush that raises
\* leaves the handler and the session is rolled back at teardown
BulkApply(table, updates, t) ==
    LET s == BulkSession(table, updates, t)
    IN IF s.raised THEN table ELSE s.rows

\* the first entry at which the loop raises KeyError: an entry without 'id',
\* or a found entry without 'updates'; 0 when there is none (the time plays
\* no part in it)
BulkFaultAt(table, updates) == BulkSession(table, updates, 0).fault

\* a faulty handler: the entries before a fault are committed one by one
BulkCommittedPerEntry(table, updates, t) ==
    IF BulkFaultAt(table, updates) = 0 THEN BulkApply(table, updates, t)
    ELSE BulkApply(table, SubSeq(updates, 1, BulkFaultAt(table, updates) - 1), t)

\* the table after the request: the session's rows are committed once, after
\* the loop (db.session.commit()); an exception before that leaves the
\* handler and the session is rolled back at teardown
BulkCommitted(table, updates, t) ==
    IF BulkFaultAt(table, updates) = 0 THEN BulkApply(table, updates, t)
    ELSE table

\* PATCH /api/work-orders/bulk
BulkUpdateWorkOrders(updates) ==
    /\ req' = [op |-> "bulk_update_work_orders", updates |-> updates]
    /\ LET s == BulkSession(workOrders, updates, now)
           \* updated_orders as the keys after the commit, and their entries
           found == s.updated
           entries == s.entries
           rejected == \/ s.raised
                       \/ \E j \in 1..Len(entries) :
                             CommitRejected(updates[entries[j]].updates, dialect)
           shadowed == \E j \in 1..Len(entries) :
                          ShadowsToDict(updates[entries[j]].updates)
       IN IF s.fault # 0
          THEN /\ workOrders' = BulkCommitted(workOrders, updates, now)
               /\ resp' = ServerError("bulk_update_work_orders")
          ELSE /\ workOrders' = IF rejected THEN workOrders
                                ELSE BulkCommitted(workOrders, updates, now)
               /\ resp' = IF rejected \/ shadowed
                          THEN ServerError("bulk_update_work_orders")
                          ELSE Response("bulk_update_work_orders", 200,
                                        [i \in 1..Len(found) |->
                                            WorkOrderToDict(workOrders'[found[i]])])
    /\ UNCHANGED <<parts, notifications, now, dialect, workers>>

-----------------------------------------------------------------------------
(* Part *)

P1 == <<"P", "1">>
P2 == <<"P", "2">>
P3 == <<"P", "3">>

Blade == <<"B", "l", "d">>
Pump == <<"P", "m", "p">>
GenElec == <<"G", "E">>
Rolls == <<"R", "R">>
Norfolk == <<"N", "o", "r">>
SanDiego == <<"S", "D">>

\* the mapped columns of Part
PartColumns ==
    {"id", "name", "system", "category", "stock_level", "min_stock", "max_stock",
     "location", "condition", "lead_time", "supplier", "cost", "last_updated"}

\* attributes of a Part instance that are not columns
PartOtherAttrs == {"to_dict"}

\* the keys create_part reads with data[...]
PartRequired ==
    {"id", "name", "system", "category", "stockLevel", "minStock", "maxStock",
     "location", "condition", "leadTime", "supplier", "cost"}

\* Part.to_dict
PartToDict(row) ==
    [id |-> row.id,
     name |-> row.name,
     system |-> row.system,
     category |-> row.category,
     stockLevel |-> row.stock_level,
     minStock |-> row.min_stock,
     maxStock |-> row.max_stock,
     location |-> row.location,
     condition |-> row.condition,
     leadTime |-> row.lead_time,
     supplier |-> row.supplier,
     cost |-> row.cost,
     lastUpdated |-> IsoFormat(row.last_updated)]

\* Part(...) as create_part builds it; the column default fills last_updated
NewPart(data, t) ==
    [id |-> data["id"],
     name |-> data["name"],
     system |-> data["system"],
     category |-> data["category"],
     stock_level |-> data["stockLevel"],
     min_stock |-> data["minStock"],
     max_stock |-> data["maxStock"],
     location |-> data["location"],
     condition |-> data["condition"],
     lead_time |-> data["leadTime"],
     supplier |-> data["supplier"],
     cost |-> data["cost"],
     last_updated |-> t]

\* a faulty loop body: a stock level below 0 is stored as 0
PartSetKeyClamping(row, key, value, t) ==
    IF key \in {"stock_level", "stockLevel"} THEN [row EXCEPT !.stock_level = Max(0, value)]
    ELSE IF key \in PartColumns THEN [row EXCEPT ![key] = value]
    ELSE IF key \in PartOtherAttrs THEN row
    ELSE IF key = "minStock" THEN [row EXCEPT !.min_stock = value]
    ELSE IF key = "maxStock" THEN [row EXCEPT !.max_stock = value]
    ELSE IF key = "leadTime" THEN [row EXCEPT !.lead_time = value]
    ELSE IF key = "lastUpdated" THEN [row EXCEPT !.last_updated = t]
    ELSE row

\* one turn of the loop over data.items() in update_part
PartSetKey(row, key, value, t) ==
    IF key \in PartColumns THEN [row EXCEPT ![key] = value]
    ELSE IF key \in PartOtherAttrs THEN row
    ELSE IF key = "stockLevel" THEN [row EXCEPT !.stock_level = value]
    ELSE IF key = "minStock" THEN [row EXCEPT !.min_stock = value]
    ELSE IF key = "maxStock" THEN [row EXCEPT !.max_stock = value]
    ELSE IF key = "leadTime" THEN [row EXCEPT !.lead_time = value]
    ELSE IF key = "lastUpdated" THEN [row EXCEPT !.last_updated = t]
    ELSE row

RECURSIVE PartSetItems(_, _, _)
\* the loop over data.items() in update_part
PartSetItems(row, items, t) ==
    IF items = <<>> THEN row
    ELSE PartSetItems(PartSetKey(row, Head(items)[1], Head(items)[2], t),
                      Tail(items), t)

\* setattr(part, 'to_dict', value) hides the method: to_dict() raises
PartShadowsToDict(items) == \E i \in 1..Len(items) : items[i][1] \in PartOtherAttrs

\* GET /api/parts/<part_id>
GetPartResponse(table, id) ==
    IF id \notin DOMAIN table
    THEN NotFound("get_part", "Part not found")
    ELSE Response("get_part", 200, PartToDict(table[id]))

GetPart(id) ==
    /\ req' = [op |-> "get_part", id |-> id]
    /\ resp' = GetPartResponse(parts, id)
    /\ UNCHANGED <<workOrders, parts, notifications, now, dialect, workers>>

\* POST /api/parts
CreatePart(data) ==
    /\ req' = [op |-> "create_part", data |-> data]
    /\ IF ~(PartRequired \subseteq DOMAIN data)
       THEN \* KeyError from data[...]
            /\ resp' = ServerError("create_part")
            /\ UNCHANGED parts
       ELSE IF data["id"] \in DOMAIN parts
       THEN \* IntegrityError at commit: the primary key exists
            /\ resp' = ServerError("create_part")
            /\ UNCHANGED parts
       ELSE /\ parts' = parts @@ (data["id"] :> NewPart(data, now))
            /\ resp' = Response("create_part", 201, PartToDict(NewPart(data, now)))
    /\ UNCHANGED <<workOrders, notifications, now, dialect, workers>>

\* PATCH /api/parts/<part_id>
UpdatePart(id, items) ==
    /\ req' = [op |-> "update_part", id |-> id, data |-> items]
    /\ IF id \notin DOMAIN parts
       THEN /\ resp' = NotFound("update_part", "Part not found")
            /\ UNCHANGED parts
       ELSE LET row == PartSetItems(parts[id], items, now)
            IN IF KeyTaken(parts, id, row.id)
               THEN /\ resp' = ServerError("update_part")
                    /\ UNCHANGED parts
               ELSE /\ parts' = Flushed([parts EXCEPT ![id] = row], "id")
                    /\ resp' = IF PartShadowsToDict(items)
                               THEN ServerError("update_part")
                               ELSE Response("update_part", 200,
                                             PartToDict(parts'[row.id]))
    /\ UNCHANGED <<workOrders, notifications, now, dialect, workers>>

\* DELETE /api/parts/<part_id>
DeletePart(id) ==
    /\ req' = [op |-> "delete_part", id |-> id]
    /\ IF id \notin DOMAIN parts
       THEN /\ resp' = NotFound("delete_part", "Part not found")
            /\ UNCHANGED parts
       ELSE /\ parts' = [k \in DOMAIN parts \ {id} |-> parts[k]]
            /\ resp' = Response("delete_part", 200,
                                [message |-> "Part deleted successfully"])
    /\ UNCHANGED <<workOrders, notifications, now, dialect, workers>>

\* a faulty computation: subtract does not stop at 0
AdjustedStockUnclamped(stock, quantity, operation) ==
    IF operation = "add" THEN stock + quantity
    ELSE IF operation = "subtract" THEN stock - quantity
    ELSE stock

\* the stock level update_stock stores
AdjustedStock(stock, quantity, operation) ==
    IF operation = "add" THEN stock + quantity
    ELSE IF operation = "subtract" THEN Max(0, stock - quantity)
    ELSE stock

\* PATCH /api/parts/<part_id>/stock
UpdateStock(id, quantity, operation) ==
    /\ req' = [op |-> "update_stock", id |-> id,
               data |-> [quantity |-> quantity, operation |-> operation]]
    /\ IF id \notin DOMAIN parts
       THEN /\ resp' = NotFound("update_stock", "Part not found")
            /\ UNCHANGED parts
       ELSE /\ AdjustedStock(parts[id].stock_level, quantity, operation) \in -MaxStock..MaxStock
            /\ parts' = [parts EXCEPT ![id] =
                            [@ EXCEPT !.stock_level = AdjustedStock(@, quantity, operation),
                                      !.last_updated = now]]
            /\ resp' = Response("update_stock", 200, PartToDict(parts'[id]))
    /\ UNCHANGED <<workOrders, notifications, now, dialect, workers>>

-----------------------------------------------------------------------------
(* update_stock served by several processes *)

\* the gunicorn worker processes
Workers == 1..MaxWorkers

\* a worker that serves no request
Idle == [pc |-> "idle"]

\* Part.query.get(part_id) in worker w: the SELECT, its result kept in the
\* worker's session; no lock is taken and no isolation level is set
StockLoad(w, id, quantity, operation) ==
    /\ workers[w] = Idle
    /\ IF id \notin DOMAIN parts
       THEN /\ req' = [op |-> "update_stock", id |-> id,
                       data |-> [quantity |-> quantity, operation |-> operation]]
            /\ resp' = NotFound("update_stock", "Part not found")
            /\ UNCHANGED workers
       ELSE /\ AdjustedStock(parts[id].stock_level, quantity, operation)
                  \in -MaxStock..MaxStock
            /\ workers' = [workers EXCEPT ![w] =
                              [pc |-> "loaded", id |-> id, quantity |-> quantity,
                               operation |-> operation, part |-> parts[id]]]
            /\ UNCHANGED <<req, resp>>
    /\ UNCHANGED <<workOrders, parts, notifications, now, dialect>>

\* the rest of update_stock in worker w: the new level is computed from the
\* row the worker loaded, and the commit writes it with UPDATE ... WHERE id
StockCommit(w) ==
    /\ workers[w].pc = "loaded"
    /\ LET id == workers[w].id
           row == [workers[w].part EXCEPT
                      !.stock_level = AdjustedStock(@, workers[w].quantity,
                                                    workers[w].operation),
                      !.last_updated = now]
       IN /\ req' = [op |-> "update_stock", id |-> id,
                     data |-> [quantity |-> workers[w].quantity,
                               operation |-> workers[w].operation]]
          /\ IF id \notin DOMAIN parts
             THEN \* the UPDATE matches no row: StaleDataError
                  /\ resp' = ServerError("update_stock")
                  /\ UNCHANGED parts
             ELSE \* the UPDATE sets the attributes whose value the worker changed
                  /\ parts' = [parts EXCEPT ![id] =
                                  [@ EXCEPT !.stock_level =
                                                IF row.stock_level = workers[w].part.stock_level
                                                THEN @ ELSE row.stock_level,
                                            !.last_updated = row.last_updated]]
                  \* to_dict() reads the row again after the commit
                  /\ resp' = Response("update_stock", 200, PartToDict(parts'[id]))
    /\ workers' = [workers EXCEPT ![w] = Idle]
    /\ UNCHANGED <<workOrders, notifications, now, dialect>>

-----------------------------------------------------------------------------
(* Notification *)

\* Notification.to_dict
NotificationToDict(row) ==
    [id |-> row.id,
     type |-> row.type,
     title |-> row.title,
     message |-> row.message,
     timestamp |-> IsoFormat(row.timestamp),
     priority |-> row.priority,
     category |-> row.category,
     read |-> row.read,
     workOrderId |-> row.work_order_id]

\* a faulty handler: it flips the flag
MarkNotificationReadToggling(id) ==
    /\ req' = [op |-> "mark_notification_read", id |-> id]
    /\ IF id \notin DOMAIN notifications
       THEN /\ resp' = NotFound("mark_notification_read", "Notification not found")
            /\ UNCHANGED notifications
       ELSE /\ notifications' = [notifications EXCEPT ![id].read = ~@]
            /\ resp' = Response("mark_notification_read", 200,
                                NotificationToDict(notifications'[id]))
    /\ UNCHANGED <<workOrders, parts, now, dialect, workers>>

\* PATCH /api/notifications/<notif_id>/read
MarkNotificationRead(id) ==
    /\ req' = [op |-> "mark_notification_read", id |-> id]
    /\ IF id \notin DOMAIN notifications
       THEN /\ resp' = NotFound("mark_notification_read", "Notification not found")
            /\ UNCHANGED notifications
       ELSE /\ notifications' = [notifications EXCEPT ![id].read = TRUE]
            /\ resp' = Response("mark_notification_read", 200,
                                NotificationToDict(notifications'[id]))
    /\ UNCHANGED <<workOrders, parts, now, dialect, workers>>

\* a faulty update: only the rows of category "alert" are marked
AlertsMarkedRead(table) ==
    [id \in DOMAIN table |->
        IF table[id].category = "alert" THEN [table[id] EXCEPT !.read = TRUE]
        ELSE table[id]]

\* Notification.query.update({'read': True})
AllMarkedRead(table) == [id \in DOMAIN table |-> [table[id] EXCEPT !.read = TRUE]]

\* PATCH /api/notifications/read-all
MarkAllNotificationsRead ==
    /\ req' = [op |-> "mark_all_notifications_read"]
    /\ notifications' = AllMarkedRead(notifications)
    /\ resp' = Response("mark_all_notifications_read", 200,
                        [message |-> "All notifications marked as read"])
    /\ UNCHANGED <<workOrders, parts, now, dialect, workers>>

\* a faulty handler: deleting a missing notification answers 200
DeleteNotificationLenient(id) ==
    /\ req' = [op |-> "delete_notification", id |-> id]
    /\ notifications' = [k \in DOMAIN notifications \ {id} |-> notifications[k]]
    /\ resp' = Response("delete_notification", 200,
                        [message |-> "Notification deleted successfully"])
    /\ UNCHANGED <<workOrders, parts, now, dialect, workers>>

\* DELETE /api/notifications/<notif_id>
DeleteNotification(id) ==
    /\ req' = [op |-> "delete_notification", id |-> id]
    /\ IF id \notin DOMAIN notifications
       THEN /\ resp' = NotFound("delete_notification", "Notification not found")
            /\ UNCHANGED notifications
       ELSE /\ notifications' = [k \in DOMAIN notifications \ {id} |-> notifications[k]]
            /\ resp' = Response("delete_notification", 200,
                                [message |-> "Notification deleted successfully"])
    /\ UNCHANGED <<workOrders, parts, now, dialect, workers>>

-----------------------------------------------------------------------------
(* Text, as the database compares it *)

UpperCase ==
    <<"A", "B", "C", "D", "E", "F", "G", "H", "I", "J", "K", "L", "M",
      "N", "O", "P", "Q", "R", "S", "T", "U", "V", "W", "X", "Y", "Z">>

LowerCase ==
    <<"a", "b", "c", "d", "e", "f", "g", "h", "i", "j", "k", "l", "m",
      "n", "o", "p", "q", "r", "s", "t", "u", "v", "w", "x", "y", "z">>

\* one character in lower case
LowerChar(c) ==
    IF \E i \in 1..Len(UpperCase) : UpperCase[i] = c
    THEN LowerCase[CHOOSE i \in 1..Len(UpperCase) : UpperCase[i] = c]
    ELSE c

\* str.lower()
Lower(str) == [i \in 1..Len(str) |-> LowerChar(str[i])]

\* LIKE compares ASCII letters without case in SQLite, with case in PostgreSQL
LikeFoldsCase(d) == d = "sqlite"

RECURSIVE LikeMatch(_, _, _)
\* text LIKE pattern: % stands for any run of characters, _ for any one
LikeMatch(pattern, text, fold) ==
    IF pattern = <<>> THEN text = <<>>
    ELSE IF Head(pattern) = "%"
    THEN \/ LikeMatch(Tail(pattern), text, fold)
         \/ text # <<>> /\ LikeMatch(pattern, Tail(text), fold)
    ELSE /\ text # <<>>
         /\ \/ Head(pattern) = "_"
            \/ Head(pattern) = Head(text)
            \/ fold /\ LowerChar(Head(pattern)) = LowerChar(Head(text))
         /\ LikeMatch(Tail(pattern), Tail(text), fold)

\* column.contains(search): column LIKE '%' || search || '%', search not escaped
Contains(column, search, d) ==
    LikeMatch(<<"%">> \o search \o <<"%">>, column, LikeFoldsCase(d))

-----------------------------------------------------------------------------
(* Lists *)

\* request.args.get(key, default)
ArgsGet(args, key, default) == IF key \in DOMAIN args THEN args[key] ELSE default

\* page = request.args.get('page', 1, type=int)
DefaultPage == 1

\* limit = request.args.get('limit', 50, type=int)
DefaultLimit == 50

\* "if value:" on a text parameter: present and not empty
Given(args, key) == key \in DOMAIN args /\ args[key] # ""

\* "if search:" on the search parameter
GivenSearch(args) == "search" \in DOMAIN args /\ args["search"] # <<>>

\* the orders in which a query may return the rows with the given keys
Orderings(keys) ==
    {order \in [1..Cardinality(keys) -> keys] :
        \A i, j \in 1..Cardinality(keys) : i # j => order[i] # order[j]}

\* whether the database rejects OFFSET/LIMIT: PostgreSQL refuses negative
\* values, SQLite reads a negative OFFSET as 0 and a negative LIMIT as none
WindowRejected(offset, limit, d) == d = "postgresql" /\ (offset < 0 \/ limit < 0)

\* a faulty window: the offset is that of the following page
WindowFromNextPage(rows, offset, limit) ==
    LET first == Max(offset + limit, 0)
        last == IF limit < 0 THEN Len(rows) ELSE Min(first + limit, Len(rows))
    IN SubSeq(rows, first + 1, last)

\* query.offset(offset).limit(limit).all() on the ordered result
Window(rows, offset, limit) ==
    LET first == Max(offset, 0)
        last == IF limit < 0 THEN Len(rows) ELSE Min(first + limit, Len(rows))
    IN SubSeq(rows, first + 1, last)

\* a faulty envelope: hasNext is true on a last page that is full
ListResponseInclusive(op, rows, page, limit, d) ==
    IF WindowRejected((page - 1) * limit, limit, d)
    THEN ServerError(op)
    ELSE Response(op, 200,
                  [items |-> Window(rows, (page - 1) * limit, limit),
                   total |-> Len(rows),
                   page |-> page,
                   pageSize |-> limit,
                   hasNext |-> (page * limit) <= Len(rows),
                   hasPrevious |-> page > 1])

\* the envelope the three list routes return
ListResponse(op, rows, page, limit, d) ==
    IF WindowRejected((page - 1) * limit, limit, d)
    THEN ServerError(op)
    ELSE Response(op, 200,
                  [items |-> Window(rows, (page - 1) * limit, limit),
                   total |-> Len(rows),
                   page |-> page,
                   pageSize |-> limit,
                   hasNext |-> (page * limit) < Len(rows),
                   hasPrevious |-> page > 1])

\* faulty filters: a row passes when it satisfies one of the two
WorkOrderMatchesEither(row, args, d) ==
    /\ \/ Given(args, "status") => row.status = args["status"]
       \/ Given(args, "priority") => row.priority = args["priority"]
    /\ GivenSearch(args) =>
          \/ Contains(row.ship, args["search"], d)
          \/ Contains(row.fm, args["search"], d)
          \/ Contains(row.wo, args["search"], d)

\* the filters of get_work_orders
WorkOrderMatches(row, args, d) ==
    /\ Given(args, "status") => row.status = args["status"]
    /\ Given(args, "priority") => row.priority = args["priority"]
    /\ GivenSearch(args) =>
          \/ Contains(row.ship, args["search"], d)
          \/ Contains(row.fm, args["search"], d)
          \/ Contains(row.wo, args["search"], d)

WorkOrdersMatching(table, args, d) ==
    {id \in DOMAIN table : WorkOrderMatches(table[id], args, d)}

\* GET /api/work-orders, the rows coming back in the given order
GetWorkOrdersResponse(table, args, d, order) ==
    ListResponse("get_work_orders",
                 [i \in 1..Len(order) |-> WorkOrderToDict(table[order[i]])],
                 ArgsGet(args, "page", DefaultPage),
                 ArgsGet(args, "limit", DefaultLimit), d)

GetWorkOrders(args) ==
    /\ req' = [op |-> "get_work_orders", args |-> args]
    /\ \E order \in Orderings(WorkOrdersMatching(workOrders, args, dialect)) :
          resp' = GetWorkOrdersResponse(workOrders, args, dialect, order)
    /\ UNCHANGED <<workOrders, parts, notifications, now, dialect, workers>>

\* the filters of get_parts
PartMatches(row, args, d) ==
    /\ Given(args, "category") => row.category = args["category"]
    /\ Given(args, "condition") => row.condition = args["condition"]
    /\ GivenSearch(args) =>
          \/ Contains(row.name, args["search"], d)
          \/ Contains(row.id, args["search"], d)
          \/ Contains(row.supplier, args["search"], d)
          \/ Contains(row.location, args["search"], d)

PartsMatching(table, args, d) ==
    {id \in DOMAIN table : PartMatches(table[id], args, d)}

\* GET /api/parts, the rows coming back in the given order
GetPartsResponse(table, args, d, order) ==
    ListResponse("get_parts",
                 [i \in 1..Len(order) |-> PartToDict(table[order[i]])],
                 ArgsGet(args, "page", DefaultPage),
                 ArgsGet(args, "limit", DefaultLimit), d)

GetParts(args) ==
    /\ req' = [op |-> "get_parts", args |-> args]
    /\ \E order \in Orderings(PartsMatching(parts, args, dialect)) :
          resp' = GetPartsResponse(parts, args, dialect, order)
    /\ UNCHANGED <<workOrders, parts, notifications, now, dialect, workers>>

\* read.lower() == 'true'
ReadWanted(read) == Lower(read) = <<"t", "r", "u", "e">>

\* the filters of get_notifications
NotificationMatches(row, args) ==
    /\ Given(args, "category") => row.category = args["category"]
    /\ Given(args, "priority") => row.priority = args["priority"]
    /\ "read" \in DOMAIN args => row.read = ReadWanted(args["read"])

NotificationsMatching(table, args) ==
    {id \in DOMAIN table : NotificationMatches(table[id], args)}

\* a faulty order: the oldest row comes first
OldestFirst(table, keys) ==
    {order \in Orderings(keys) :
        \A i, j \in 1..Len(order) :
            i < j => table[order[i]].timestamp <= table[order[j]].timestamp}

\* order_by(Notification.timestamp.desc()): rows of one timestamp in any order
NewestFirst(table, keys) ==
    {order \in Orderings(keys) :
        \A i, j \in 1..Len(order) :
            i < j => table[order[i]].timestamp >= table[order[j]].timestamp}

\* GET /api/notifications, the rows coming back in the given order
GetNotificationsResponse(table, args, d, order) ==
    ListResponse("get_notifications",
                 [i \in 1..Len(order) |-> NotificationToDict(table[order[i]])],
                 ArgsGet(args, "page", DefaultPage),
                 ArgsGet(args, "limit", DefaultLimit), d)

GetNotifications(args) ==
    /\ req' = [op |-> "get_notifications", args |-> args]
    /\ \E order \in NewestFirst(notifications, NotificationsMatching(notifications, args)) :
          resp' = GetNotificationsResponse(notifications, args, dialect, order)
    /\ UNCHANGED <<workOrders, parts, notifications, now, dialect, workers>>

-----------------------------------------------------------------------------
(* The clock *)

Tick ==
    /\ now < MaxClock
    /\ now' = now + 1
    /\ UNCHANGED <<workOrders, parts, notifications, dialect, workers, req, resp>>

-----------------------------------------------------------------------------
(* Requests on work orders that the model sends *)

WoIds == {W1, W2}

\* a body with every field
FullWorkOrderBody(id) ==
    [wo |-> id, ship |-> Cole, homeport |-> "NB Norfolk", fm |-> Vib,
     gte |-> "LM2500", priority |-> "Routine", status |-> "Submitted", eta |-> 8,
     symptoms |-> "Excessive vibration", recommendedAction |-> "Inspect hot section",
     partsRequired |-> "Turbine Blade Set", slaCategory |-> "Priority"]

\* a body with the required fields only
RequiredWorkOrderBody(id) ==
    [wo |-> id, ship |-> Bain, homeport |-> "San Diego", fm |-> Oil,
     gte |-> "LM2500", priority |-> "CASREP", status |-> "In Progress", eta |-> 5]

\* a body that lacks the required field eta
ShortWorkOrderBody(id) ==
    [wo |-> id, ship |-> Bain, homeport |-> "San Diego", fm |-> Oil,
     gte |-> "LM2500", priority |-> "Urgent", status |-> "Submitted"]

WorkOrderBodies ==
    {FullWorkOrderBody(W1), RequiredWorkOrderBody(W2), ShortWorkOrderBody(W1)}

\* field maps of PATCH requests, as the sequence data.items() yields
WorkOrderPatches ==
    { <<>>,
      << <<"status", "Completed">>, <<"slaCategory", "Urgent">> >>,
      << <<"recommended_action", "Test motor">>, <<"recommendedAction", "Replace pump">> >>,
      << <<"bogus", "x">> >>,
      << <<"to_dict", "x">> >> }

\* entries of a bulk request
BulkEntries ==
    { [id |-> id, updates |-> p] :
        id \in WoIds,
        p \in { <<>>, << <<"status", "Completed">>, <<"slaCategory", "Urgent">> >> } }

RECURSIVE SeqsUpTo(_, _)
\* the sequences over S of length at most n
SeqsUpTo(S, n) ==
    IF n = 0 THEN {<<>>}
    ELSE LET shorter == SeqsUpTo(S, n - 1)
         IN shorter \cup {Append(q, x) : q \in shorter, x \in S}

BulkRequests == SeqsUpTo(BulkEntries, MaxBulk)

-----------------------------------------------------------------------------
(* Requests on parts that the model sends *)

PartIds == {P1, P2}

\* the body of a new part with the given stock
PartBody(id, stock) ==
    [id |-> id, name |-> Blade, system |-> "LM2500", category |-> "Hot Section",
     stockLevel |-> stock, minStock |-> 1, maxStock |-> 3, location |-> Norfolk,
     condition |-> "New", leadTime |-> "45 days", supplier |-> GenElec, cost |-> 75000]

\* a body that lacks the required field cost
ShortPartBody(id) ==
    [id |-> id, name |-> Pump, system |-> "LM2500", category |-> "Fuel System",
     stockLevel |-> 1, minStock |-> 1, maxStock |-> 3, location |-> SanDiego,
     condition |-> "New", leadTime |-> "30 days", supplier |-> Rolls]

PartBodies == {PartBody(P1, 3), PartBody(P2, 0), ShortPartBody(P1)}

\* field maps of PATCH requests on a part
PartPatches ==
    { <<>>,
      << <<"condition", "Refurbished">>, <<"leadTime", "60 days">> >>,
      << <<"lastUpdated", "2024-01-15T10:00:00">> >>,
      << <<"bogus", "x">> >>,
      << <<"to_dict", "x">> >> }

-----------------------------------------------------------------------------
(* Requests on notifications and list requests that the model sends *)

N1 == "notif_001"
N2 == "notif_002"
N3 == "notif_003"

NotifIds == {N1, N2, N3}

\* the query strings with the parameter absent or set to one of the values
OptArg(key, values) == {EmptyArgs} \cup {key :> v : v \in values}

\* page and limit: both absent, one given, both given
Paging ==
    {EmptyArgs, "page" :> MaxPage, "limit" :> 1}
        \cup {("page" :> p) @@ ("limit" :> l) : p \in 0..MaxPage, l \in 0..MaxLimit}

Searches ==
    OptArg("search", {<<>>, Cole, Lower(Cole), <<"o">>, <<"_">>, <<"1">>, <<"x">>})

WorkOrderFilters ==
    {a @@ b : a \in OptArg("status", {"", "Submitted"}),
              b \in OptArg("priority", {"CASREP"})}

\* what a list of work orders is asked to match
WorkOrderCriteria == WorkOrderFilters \cup Searches

WorkOrderQueries ==
    WorkOrderCriteria
        \cup {f @@ p : f \in OptArg("status", {"Submitted"}), p \in Paging}

PartFilters ==
    {a @@ b : a \in OptArg("category", {"Hot Section"}),
              b \in OptArg("condition", {"New"})}

\* what a list of parts is asked to match
PartCriteria == PartFilters \cup Searches

PartQueries ==
    PartCriteria \cup {f @@ p : f \in OptArg("condition", {"New"}), p \in Paging}

ReadValues ==
    {<<"t", "r", "u", "e">>, <<"f", "a", "l", "s", "e">>, <<"T", "r", "u", "e">>, <<"1">>}

\* what a list of notifications is asked to match
NotificationFilters ==
    {a @@ b @@ c : a \in OptArg("category", {"alert"}),
                   b \in OptArg("priority", {"high"}),
                   c \in OptArg("read", ReadValues)}

NotificationQueries ==
    NotificationFilters
        \cup {f @@ p : f \in OptArg("read", {<<"f", "a", "l", "s", "e">>}), p \in Paging}

\* the list requests sent between the requests that mark and delete
ReadQueries ==
    {f @@ p : f \in OptArg("read", ReadValues),
              p \in {EmptyArgs, ("page" :> 1) @@ ("limit" :> 1)}}

-----------------------------------------------------------------------------
(* The rows seed_database() inserts, abridged *)

SeedWorkOrder(id, ship, fm, priority, status) ==
    [wo |-> id, ship |-> ship, homeport |-> "NB Norfolk", fm |-> fm,
     gte |-> "LM2500", priority |-> priority, status |-> status, eta |-> 8,
     symptoms |-> "Excessive vibration", recommended_action |-> "Inspect hot section",
     parts_required |-> "Turbine Blade Set", sla_category |-> "Priority",
     created_at |-> 0, updated_at |-> 0]

SeedWorkOrders ==
    (W1 :> SeedWorkOrder(W1, Bain, Vib, "Routine", "Submitted"))
        @@ (W2 :> SeedWorkOrder(W2, <<"B", "u", "r", "k">>, Oil, "Urgent", "In Progress"))
        @@ (W3 :> SeedWorkOrder(W3, Cole, <<"E", "G", "T">>, "CASREP", "Submitted"))

SeedPart(id, name, category, stock, location, condition, supplier, t) ==
    [id |-> id, name |-> name, system |-> "LM2500", category |-> category,
     stock_level |-> stock, min_stock |-> 1, max_stock |-> 3, location |-> location,
     condition |-> condition, lead_time |-> "45 days", supplier |-> supplier,
     cost |-> 75000, last_updated |-> t]

SeedParts(t) ==
    (P1 :> SeedPart(P1, Blade, "Hot Section", 3, Norfolk, "New", GenElec, t))
        @@ (P2 :> SeedPart(P2, Pump, "Fuel System", 1, SanDiego, "Refurbished", Rolls, t))

SeedNotification(id, type, title, priority, category, wo, t) ==
    [id |-> id, type |-> type, title |-> title, message |-> title, timestamp |-> t,
     priority |-> priority, category |-> category, read |-> FALSE, work_order_id |-> wo]

SeedNotifications(t1, t2, t3) ==
    (N1 :> SeedNotification(N1, "info", "System Initialized", "medium", "system", Null, t1))
        @@ (N2 :> SeedNotification(N2, "warning", "Low Stock Alert", "high", "alert", Null, t2))
        @@ (N3 :> SeedNotification(N3, "error", "CASREP Alert", "critical", "alert", W3, t3))

-----------------------------------------------------------------------------
(* Specifications *)

\* db.create_all() on a new database
InitEmpty ==
    /\ workOrders = EmptyTable
    /\ parts = EmptyTable
    /\ notifications = EmptyTable
    /\ now = 0
    /\ dialect \in Dialects
    /\ workers = [w \in Workers |-> Idle]
    /\ req = NoRequest
    /\ resp = NoResponse

\* the work-order routes
NextWO ==
    \/ \E data \in WorkOrderBodies : CreateWorkOrder(data)
    \/ \E id \in WoIds : GetWorkOrder(id)
    \/ \E id \in WoIds, items \in WorkOrderPatches : UpdateWorkOrder(id, items)
    \/ \E id \in WoIds : DeleteWorkOrder(id)
    \/ \E updates \in BulkRequests : BulkUpdateWorkOrders(updates)
    \/ Tick

SpecWO == InitEmpty /\ [][NextWO]_vars

\* the part routes
NextPart ==
    \/ \E data \in PartBodies : CreatePart(data)
    \/ \E id \in PartIds : GetPart(id)
    \/ \E id \in PartIds, items \in PartPatches : UpdatePart(id, items)
    \/ \E id \in PartIds : DeletePart(id)
    \/ \E id \in PartIds, q \in {-2, 1, 1000000}, o \in {"add", "subtract", "set"} :
          UpdateStock(id, q, o)
    \/ Tick

SpecPart == InitEmpty /\ [][NextPart]_vars

\* seed_database(): the utcnow() readings of the seed rows do not decrease
InitSeeded ==
    /\ workOrders = SeedWorkOrders
    /\ \E t1, t2, t3 \in 0..MaxClock :
          /\ t1 <= t2 /\ t2 <= t3
          /\ parts = SeedParts(t1)
          /\ notifications = SeedNotifications(t1, t2, t3)
          /\ now = t3
    /\ dialect \in Dialects
    /\ workers = [w \in Workers |-> Idle]
    /\ req = NoRequest
    /\ resp = NoResponse

\* the notification routes
NextNotif ==
    \/ \E id \in NotifIds : MarkNotificationRead(id)
    \/ MarkAllNotificationsRead
    \/ \E id \in NotifIds : DeleteNotification(id)
    \/ \E args \in ReadQueries : GetNotifications(args)

SpecNotif == InitSeeded /\ [][NextNotif]_vars

\* the list routes
NextList ==
    \/ \E args \in WorkOrderQueries : GetWorkOrders(args)
    \/ \E args \in PartQueries : GetParts(args)
    \/ \E args \in NotificationQueries : GetNotifications(args)

SpecList == InitSeeded /\ [][NextList]_vars

\* the delete routes, and the lookups by id
NextDelete ==
    \/ \E id \in WoIds : GetWorkOrder(id)
    \/ \E id \in WoIds : DeleteWorkOrder(id)
    \/ \E id \in PartIds : GetPart(id)
    \/ \E id \in PartIds : DeletePart(id)
    \/ \E id \in NotifIds : DeleteNotification(id)

SpecDelete == InitSeeded /\ [][NextDelete]_vars

\* the whole API, on a new or a seeded database
Init == InitEmpty \/ InitSeeded

Next == NextWO \/ NextPart \/ NextNotif \/ NextList

Spec == Init /\ [][Next]_vars

-----------------------------------------------------------------------------
(* Properties *)

\* C1: an add or subtract on a part whose stock_level is >= 0 leaves the
\* stored stock_level >= 0, whatever the quantity
StockNeverNegative ==
    [][(/\ req'.op = "update_stock"
        /\ req'.data.operation \in {"add", "subtract"}
        /\ req'.id \in DOMAIN parts
        /\ parts[req'.id].stock_level >= 0
        /\ UpdateStock(req'.id, req'.data.quantity, req'.data.operation))
           => parts'[req'.id].stock_level >= 0]_vars

\* C2: a PATCH of an existing work order or part leaves the row's
\* updated_at / last_updated equal to the current time, whatever the field map
PatchRefreshesTimestamp ==
    [][/\ (/\ req'.op = "update_work_order"
           /\ req'.id \in DOMAIN workOrders
           /\ UpdateWorkOrder(req'.id, req'.data))
              => workOrders'[req'.id].updated_at = now
       /\ (/\ req'.op = "update_part"
           /\ req'.id \in DOMAIN parts
           /\ UpdatePart(req'.id, req'.data))
              => parts'[req'.id].last_updated = now]_vars

\* sub occurs in text, letter for letter
IsSubstring(sub, text) ==
    \E i \in 0..(Len(text) - Len(sub)) : SubSeq(text, i + 1, i + Len(sub)) = sub

\* the set of the items of a list response
ItemSet(body) == {body.items[i] : i \in 1..Len(body.items)}

\* C3: a list asked only for a search string returns exactly the rows in which
\* the string occurs, with the same letter case, in one of the searched fields
SearchIsCaseSensitiveSubstring ==
    [][/\ (/\ req'.op = "get_work_orders"
           /\ DOMAIN req'.args = {"search"}
           /\ req'.args["search"] # <<>>
           /\ GetWorkOrders(req'.args))
              => /\ resp'.status = 200
                 /\ ItemSet(resp'.body) =
                       {WorkOrderToDict(workOrders[id]) :
                           id \in {k \in DOMAIN workOrders :
                                      \/ IsSubstring(req'.args["search"], workOrders[k].ship)
                                      \/ IsSubstring(req'.args["search"], workOrders[k].fm)
                                      \/ IsSubstring(req'.args["search"], workOrders[k].wo)}}
       /\ (/\ req'.op = "get_parts"
           /\ DOMAIN req'.args = {"search"}
           /\ req'.args["search"] # <<>>
           /\ GetParts(req'.args))
              => /\ resp'.status = 200
                 /\ ItemSet(resp'.body) =
                       {PartToDict(parts[id]) :
                           id \in {k \in DOMAIN parts :
                                      \/ IsSubstring(req'.args["search"], parts[k].name)
                                      \/ IsSubstring(req'.args["search"], parts[k].id)
                                      \/ IsSubstring(req'.args["search"], parts[k].supplier)
                                      \/ IsSubstring(req'.args["search"], parts[k].location)}}]_vars

\* the query string args asking for one page of the given size
PageOf(args, page, size) == ("page" :> page) @@ ("limit" :> size) @@ args

\* the responses the list route of the request r may give to the query args
ListResponses(r, args) ==
    IF r.op = "get_work_orders"
    THEN {GetWorkOrdersResponse(workOrders, args, dialect, order) :
             order \in Orderings(WorkOrdersMatching(workOrders, args, dialect))}
    ELSE IF r.op = "get_parts"
    THEN {GetPartsResponse(parts, args, dialect, order) :
             order \in Orderings(PartsMatching(parts, args, dialect))}
    ELSE {GetNotificationsResponse(notifications, args, dialect, order) :
             order \in NewestFirst(notifications,
                                   NotificationsMatching(notifications, args))}

\* the number of rows the route of r finds for args before the window is cut
Matching(r, args) ==
    IF r.op = "get_work_orders"
    THEN Cardinality(WorkOrdersMatching(workOrders, args, dialect))
    ELSE IF r.op = "get_parts"
    THEN Cardinality(PartsMatching(parts, args, dialect))
    ELSE Cardinality(NotificationsMatching(notifications, args))

RECURSIVE SumOfPages(_, _, _, _)
\* the items on pages 1..n of the given size, each page in an order of its own
SumOfPages(r, args, size, n) ==
    IF n = 0 THEN {0}
    ELSE {a + Len(page.body.items) :
             a \in SumOfPages(r, args, size, n - 1),
             page \in ListResponses(r, PageOf(args, n, size))}

IsList(r) == r.op \in {"get_work_orders", "get_parts", "get_notifications"}

\* C4: with the store fixed, for the filters of any list request and any page
\* size >= 1, every page reports the number of matching rows as total, and the
\* items of pages 1, 2, ... add up to it
PaginationComplete ==
    IsList(req) =>
        \A size \in 1..MaxLimit :
            LET total == Matching(req, req.args)
                last == total + 1
            IN /\ \A n \in 1..last :
                     \A page \in ListResponses(req, PageOf(req.args, n, size)) :
                         page.status = 200 /\ page.body.total = total
               /\ SumOfPages(req, req.args, size, last) = {total}

\* a second page that is the last: the rows do not fit on one page
PaginationCompleteWitness ==
    /\ IsList(req)
    /\ resp.status = 200
    /\ resp.body.page = 2
    /\ resp.body.pageSize = 2
    /\ resp.body.total = 3
    /\ Len(resp.body.items) = 1

\* the envelope body answers the query string args
FlagsFit(body, args) ==
    LET page == IF "page" \in DOMAIN args THEN args["page"] ELSE 1
        size == IF "limit" \in DOMAIN args THEN args["limit"] ELSE 50
    IN /\ body.page = page
       /\ body.pageSize = size
       /\ body.hasNext = (page * size < body.total)
       /\ body.hasPrevious = (page > 1)

\* a step that serves a list request
ListServed ==
    \/ req'.op = "get_work_orders" /\ GetWorkOrders(req'.args)
    \/ req'.op = "get_parts" /\ GetParts(req'.args)
    \/ req'.op = "get_notifications" /\ GetNotifications(req'.args)

\* C5: every list envelope has hasNext = (page * pageSize < total) and
\* hasPrevious = (page > 1), page being 1 and pageSize 50 when not in the query
ListFlags ==
    [][(ListServed /\ resp'.status = 200) => FlagsFit(resp'.body, req'.args)]_vars

\* a full last page, asked for with the default page number
ListFlagsWitness ==
    /\ IsList(req)
    /\ "page" \notin DOMAIN req.args
    /\ "limit" \in DOMAIN req.args
    /\ resp.status = 200
    /\ resp.body.total = resp.body.pageSize
    /\ resp.body.total > 0
    /\ ~resp.body.hasNext
    /\ ~resp.body.hasPrevious

CallerFields ==
    {"wo", "ship", "homeport", "fm", "gte", "priority", "status", "eta",
     "symptoms", "recommendedAction", "partsRequired", "slaCategory"}

\* C6: after a work order is created, the lookup by its code returns every
\* caller-supplied field as it was given, null for the optional ones left out
CreateThenGet ==
    [][(/\ req'.op = "create_work_order"
        /\ CreateWorkOrder(req'.data)
        /\ resp'.status = 201)
           => LET got == GetWorkOrderResponse(workOrders', req'.data["wo"])
              IN /\ got.status = 200
                 /\ \A k \in CallerFields :
                       got.body[k] = IF k \in DOMAIN req'.data THEN req'.data[k] ELSE Null
                 /\ got.body.createdAt = IsoFormat(now)
                 /\ got.body.updatedAt = IsoFormat(now)]_vars

\* a work order created with every optional field is in the store
CreateThenGetWitness ==
    /\ req.op = "create_work_order"
    /\ resp.status = 201
    /\ {"symptoms", "recommendedAction", "partsRequired", "slaCategory"}
           \subseteq DOMAIN req.data
    /\ req.data["wo"] \in DOMAIN workOrders

\* the positions of the entries of a bulk request whose id is in the table
FoundEntries(table, updates) == {i \in 1..Len(updates) : updates[i].id \in DOMAIN table}

\* C7: a bulk update answers 200 whether or not its ids exist, patches every
\* row it names that exists, returns one record per entry that was found,
\* and leaves the rows it does not name as they were
BulkSkipsMissing ==
    [][(/\ req'.op = "bulk_update_work_orders"
        /\ BulkUpdateWorkOrders(req'.updates))
           => LET updates == req'.updates
                  found == FoundEntries(workOrders, updates)
                  named == {updates[i].id : i \in 1..Len(updates)}
              IN /\ resp'.status = 200
                 /\ Len(resp'.body) = Cardinality(found)
                 /\ {resp'.body[j].wo : j \in 1..Len(resp'.body)} =
                        {updates[i].id : i \in found}
                 /\ \A j \in 1..Len(resp'.body) :
                       resp'.body[j] = WorkOrderToDict(workOrders'[resp'.body[j].wo])
                 /\ DOMAIN workOrders' = DOMAIN workOrders
                 /\ \A id \in DOMAIN workOrders \ named : workOrders'[id] = workOrders[id]
                 /\ \A i \in found :
                       /\ workOrders'[updates[i].id].updated_at = now
                       /\ (\A k \in found : updates[k].id = updates[i].id => k = i)
                             => workOrders'[updates[i].id] =
                                   WorkOrderPatched(workOrders[updates[i].id],
                                                    updates[i].updates, now)]_vars

\* a request that names a missing id before an existing one: one record
BulkSkipsMissingWitness ==
    /\ req.op = "bulk_update_work_orders"
    /\ Len(req.updates) = 2
    /\ req.updates[1].id \notin DOMAIN workOrders
    /\ req.updates[2].id \in DOMAIN workOrders
    /\ req.updates[2].updates # <<>>
    /\ resp.status = 200
    /\ Len(resp.body) = 1

AllRead(table) == \A id \in DOMAIN table : table[id].read

\* C8: read-all sets the read flag of every stored notification and nothing
\* else; while all are read, a list with read=false has no items and total 0
MarkAllReadsAll ==
    [][/\ (req'.op = "mark_all_notifications_read" /\ MarkAllNotificationsRead)
              => /\ resp'.status = 200
                 /\ DOMAIN notifications' = DOMAIN notifications
                 /\ \A id \in DOMAIN notifications :
                       notifications'[id] = [notifications[id] EXCEPT !.read = TRUE]
       /\ (/\ req'.op = "get_notifications"
           /\ DOMAIN req'.args = {"read"}
           /\ req'.args["read"] = <<"f", "a", "l", "s", "e">>
           /\ AllRead(notifications)
           /\ GetNotifications(req'.args))
              => /\ resp'.status = 200
                 /\ resp'.body.items = <<>>
                 /\ resp'.body.total = 0]_vars

\* read-all has acted on notifications of several categories and priorities
MarkAllReadsAllWitness ==
    /\ req.op = "mark_all_notifications_read"
    /\ DOMAIN notifications = NotifIds
    /\ AllRead(notifications)
    /\ Cardinality({notifications[id].category : id \in NotifIds}) > 1
    /\ Cardinality({notifications[id].priority : id \in NotifIds}) > 1

\* what a delete of id does to a table and answers
DeleteOutcome(before, after, id, r, message) ==
    IF id \in DOMAIN before
    THEN /\ r.status = 200
         /\ after = [k \in DOMAIN before \ {id} |-> before[k]]
    ELSE /\ r = [op |-> r.op, status |-> 404, body |-> [message |-> message]]
         /\ after = before

\* C9: a delete of a missing id answers 404 with "<Entity> not found" and
\* changes nothing; a delete of an existing id removes that row alone, and
\* the lookup of the id then answers 404
DeleteIsExact ==
    [][/\ (req'.op = "delete_work_order" /\ DeleteWorkOrder(req'.id))
              => /\ DeleteOutcome(workOrders, workOrders', req'.id, resp',
                                  "Work order not found")
                 /\ UNCHANGED <<parts, notifications>>
                 /\ GetWorkOrderResponse(workOrders', req'.id) =
                        [op |-> "get_work_order", status |-> 404,
                         body |-> [message |-> "Work order not found"]]
       /\ (req'.op = "delete_part" /\ DeletePart(req'.id))
              => /\ DeleteOutcome(parts, parts', req'.id, resp', "Part not found")
                 /\ UNCHANGED <<workOrders, notifications>>
                 /\ GetPartResponse(parts', req'.id) =
                        [op |-> "get_part", status |-> 404,
                         body |-> [message |-> "Part not found"]]
       /\ (req'.op = "delete_notification" /\ DeleteNotification(req'.id))
              => /\ DeleteOutcome(notifications, notifications', req'.id, resp',
                                  "Notification not found")
                 /\ UNCHANGED <<workOrders, parts>>
                 /\ req'.id \notin DOMAIN notifications']_vars

\* a notification deleted before is deleted again: 404, the others remain
DeleteIsExactWitness ==
    /\ req.op = "delete_notification"
    /\ resp.status = 404
    /\ req.id \notin DOMAIN notifications
    /\ Cardinality(DOMAIN notifications) = 2

\* the filter key of the query is supplied
Supplied(args, key) == key \in DOMAIN args /\ args[key] # ""

\* the row has the supplied value in the column of every filter key
Satisfies(row, args, keys) == \A key \in keys : Supplied(args, key) => row[key] = args[key]

\* the row's read flag is the one the query asks for, if it asks
ReadAsAsked(row, args) ==
    "read" \in DOMAIN args => row.read = (args["read"] = <<"t", "r", "u", "e">>)

\* the response lists the expected records: all of them on a page large
\* enough, and their number as total
ListsExactly(r, args, expected) ==
    /\ r.status = 200
    /\ r.body.total = Cardinality(expected)
    /\ ItemSet(r.body) \subseteq expected
    /\ {"page", "limit"} \cap DOMAIN args = {} => ItemSet(r.body) = expected

\* C10: a list with exact-match filters returns the rows that satisfy every
\* supplied filter, and total counts them
FiltersConjoin ==
    [][/\ (/\ req'.op = "get_work_orders"
           /\ "search" \notin DOMAIN req'.args
           /\ GetWorkOrders(req'.args)
           /\ resp'.status # 500)
              => ListsExactly(resp', req'.args,
                     {WorkOrderToDict(workOrders[id]) :
                         id \in {k \in DOMAIN workOrders :
                                    Satisfies(workOrders[k], req'.args,
                                              {"status", "priority"})}})
       /\ (/\ req'.op = "get_parts"
           /\ "search" \notin DOMAIN req'.args
           /\ GetParts(req'.args)
           /\ resp'.status # 500)
              => ListsExactly(resp', req'.args,
                     {PartToDict(parts[id]) :
                         id \in {k \in DOMAIN parts :
                                    Satisfies(parts[k], req'.args,
                                              {"category", "condition"})}})
       /\ (/\ req'.op = "get_notifications"
           /\ "read" \in DOMAIN req'.args
                 => req'.args["read"] \in {<<"t", "r", "u", "e">>,
                                           <<"f", "a", "l", "s", "e">>}
           /\ GetNotifications(req'.args)
           /\ resp'.status # 500)
              => ListsExactly(resp', req'.args,
                     {NotificationToDict(notifications[id]) :
                         id \in {k \in DOMAIN notifications :
                                    /\ Satisfies(notifications[k], req'.args,
                                                 {"category", "priority"})
                                    /\ ReadAsAsked(notifications[k], req'.args)}})]_vars

\* the three seeded work orders listed with priority=CASREP: the one CASREP
FiltersConjoinWitness ==
    /\ req.op = "get_work_orders"
    /\ DOMAIN req.args = {"priority"}
    /\ req.args["priority"] = "CASREP"
    /\ Cardinality(DOMAIN workOrders) = 3
    /\ resp.status = 200
    /\ resp.body.total = 1
    /\ Len(resp.body.items) = 1
    /\ resp.body.items[1].priority = "CASREP"

\* the field names a PATCH of a work order recognizes, stored and external
WorkOrderFields ==
    WorkOrderColumns \cup {"recommendedAction", "partsRequired", "slaCategory"}

\* the field names a PATCH of a part recognizes, stored and external
PartFields ==
    PartColumns \cup {"stockLevel", "minStock", "maxStock", "leadTime", "lastUpdated"}

\* no key of the field map is among the fields
NoKeyIn(items, fields) == \A i \in 1..Len(items) : items[i][1] \notin fields

\* C11: a PATCH whose field map has only keys that are not fields of the
\* entity answers 200 and changes nothing of the entity but its timestamp
UnknownKeysIgnored ==
    [][/\ (/\ req'.op = "update_work_order"
           /\ req'.id \in DOMAIN workOrders
           /\ NoKeyIn(req'.data, WorkOrderFields)
           /\ UpdateWorkOrder(req'.id, req'.data))
              => /\ resp'.status = 200
                 /\ workOrders' = [workOrders EXCEPT ![req'.id].updated_at = now]
       /\ (/\ req'.op = "update_part"
           /\ req'.id \in DOMAIN parts
           /\ NoKeyIn(req'.data, PartFields)
           /\ UpdatePart(req'.id, req'.data))
              => /\ resp'.status = 200
                 /\ parts' = [parts EXCEPT ![req'.id].last_updated =
                                               parts'[req'.id].last_updated]]_vars

-----------------------------------------------------------------------------
(* Creates that meet an existing key *)

\* bodies that differ in their fields and share their keys
RivalWorkOrderBodies ==
    {FullWorkOrderBody(id) : id \in WoIds} \cup {RequiredWorkOrderBody(id) : id \in WoIds}

RivalPartBodies == {PartBody(id, stock) : id \in PartIds, stock \in {0, 3}}

\* the create and delete routes of work orders and parts
NextCreate ==
    \/ \E data \in RivalWorkOrderBodies : CreateWorkOrder(data)
    \/ \E data \in RivalPartBodies : CreatePart(data)
    \/ \E id \in WoIds : DeleteWorkOrder(id)
    \/ \E id \in PartIds : DeletePart(id)
    \/ Tick

SpecCreate == InitEmpty /\ [][NextCreate]_vars

\* C12: a create whose key is in the store answers Conflict (409) and leaves
\* the store as it was: the existing record is kept, no record is added
DuplicateCreateConflicts ==
    [][/\ (/\ req'.op = "create_work_order"
           /\ req'.data["wo"] \in DOMAIN workOrders
           /\ CreateWorkOrder(req'.data))
              => /\ resp'.status = 409
                 /\ workOrders' = workOrders
                 /\ UNCHANGED <<parts, notifications>>
       /\ (/\ req'.op = "create_part"
           /\ req'.data["id"] \in DOMAIN parts
           /\ CreatePart(req'.data))
              => /\ resp'.status = 409
                 /\ parts' = parts
                 /\ UNCHANGED <<workOrders, notifications>>]_vars

-----------------------------------------------------------------------------
(* Stock requests served at the same time *)

\* update_stock on one part, the workers' steps interleaved
NextStock ==
    \/ \E w \in Workers, id \in {P1, P3}, q \in {1, 2}, o \in {"add", "subtract"} :
          StockLoad(w, id, q, o)
    \/ \E w \in Workers : StockCommit(w)

SpecStock == InitSeeded /\ [][NextStock]_vars

\* C13: the commit of an add stores the level the part has at the commit plus
\* the quantity, so that adds served at the same time all count
NoLostUpdate ==
    [][\A w \in Workers :
          (/\ workers[w].pc = "loaded"
           /\ workers[w].operation = "add"
           /\ workers[w].id \in DOMAIN parts
           /\ StockCommit(w))
              => parts'[workers[w].id].stock_level =
                     parts[workers[w].id].stock_level + workers[w].quantity]_vars

\* the level an add or a subtract of the quantity leaves
LevelAfter(old, quantity, operation) ==
    IF operation = "add" THEN old + quantity
    ELSE IF old - quantity > 0 THEN old - quantity ELSE 0

\* C14: on an existing part, add stores old + quantity and subtract stores
\* max(0, old - quantity); both refresh last_updated and change nothing else;
\* on a missing id the answer is 404 and nothing changes
StockAdjusts ==
    [][(/\ req'.op = "update_stock"
        /\ req'.data.operation \in {"add", "subtract"}
        /\ UpdateStock(req'.id, req'.data.quantity, req'.data.operation))
           => /\ IF req'.id \in DOMAIN parts
                 THEN /\ resp'.status = 200
                      /\ parts' = [parts EXCEPT ![req'.id] =
                                     [@ EXCEPT !.stock_level =
                                                   LevelAfter(@, req'.data.quantity,
                                                              req'.data.operation),
                                               !.last_updated = now]]
                      /\ resp'.body.stockLevel = parts'[req'.id].stock_level
                 ELSE /\ resp'.status = 404
                      /\ resp'.body = [message |-> "Part not found"]
                      /\ parts' = parts
              /\ UNCHANGED <<workOrders, notifications>>]_vars

\* a subtract larger than the stock has left a part created earlier at 0
StockAdjustsWitness ==
    /\ req.op = "update_stock"
    /\ req.data.operation = "subtract"
    /\ req.data.quantity = 1000000
    /\ resp.status = 200
    /\ resp.body.stockLevel = 0
    /\ resp.body.lastUpdated = IsoFormat(MaxClock)
    /\ resp.body.id = P1

-----------------------------------------------------------------------------
(* Field maps that name the timestamps *)

\* field maps with the timestamps of a work order, as ISO text
TimestampPatches ==
    { <<>>,
      << <<"status", "Completed">> >>,
      << <<"created_at", IsoFormat(MaxClock)>> >>,
      << <<"updated_at", IsoFormat(0)>> >>,
      << <<"updatedAt", IsoFormat(0)>>, <<"createdAt", IsoFormat(MaxClock)>> >> }

TimestampBulkRequests ==
    { << [id |-> id, updates |-> p] >> : id \in WoIds, p \in TimestampPatches }

\* the routes that write work orders, with field maps naming the timestamps
NextTimestamps ==
    \/ \E data \in WorkOrderBodies : CreateWorkOrder(data)
    \/ \E id \in WoIds, items \in TimestampPatches : UpdateWorkOrder(id, items)
    \/ \E updates \in TimestampBulkRequests : BulkUpdateWorkOrders(updates)
    \/ \E id \in WoIds : DeleteWorkOrder(id)
    \/ Tick

SpecTimestamps == InitEmpty /\ [][NextTimestamps]_vars

\* C15: every stored work order has updated_at >= created_at
UpdatedNotBeforeCreated ==
    \A id \in DOMAIN workOrders :
        workOrders[id].updated_at >= workOrders[id].created_at

-----------------------------------------------------------------------------
(* Bulk requests with an entry that faults *)

\* entries of a bulk request: found, not found, and lacking a key
FaultyBulkEntries ==
    { [id |-> W1, updates |-> << <<"status", "Completed">> >>],
      [id |-> W2, updates |-> << <<"priority", "CASREP">> >>],
      [id |-> <<"W", "9">>, updates |-> << <<"status", "Completed">> >>],
      [id |-> W3],
      [updates |-> << <<"status", "Completed">> >>] }

\* bulk updates on the seeded work orders, and lookups
NextBulk ==
    \/ \E updates \in SeqsUpTo(FaultyBulkEntries, MaxBulk) : BulkUpdateWorkOrders(updates)
    \/ \E id \in WoIds : GetWorkOrder(id)
    \/ Tick

SpecBulk == InitSeeded /\ [][NextBulk]_vars

\* the entry is complete and names a stored work order
EntryFound(table, entry) ==
    {"id", "updates"} \subseteq DOMAIN entry /\ entry.id \in DOMAIN table

\* C16: a bulk update persists the update of every found entry or of none;
\* when an entry faults, nothing of the entries before it is in the store
BulkAtomic ==
    [][(/\ req'.op = "bulk_update_work_orders"
        /\ BulkUpdateWorkOrders(req'.updates))
           => LET updates == req'.updates
                  faults == \E i \in 1..Len(updates) :
                               \/ "id" \notin DOMAIN updates[i]
                               \/ /\ updates[i].id \in DOMAIN workOrders
                                  /\ "updates" \notin DOMAIN updates[i]
              IN /\ faults => resp'.status = 500 /\ workOrders' = workOrders
                 /\ \/ workOrders' = workOrders
                    \/ \A i \in 1..Len(updates) :
                          EntryFound(workOrders, updates[i])
                             => /\ workOrders'[updates[i].id].updated_at = now
                                /\ \A j \in 1..Len(updates[i].updates) :
                                      workOrders'[updates[i].id][updates[i].updates[j][1]]
                                          = updates[i].updates[j][2]]_vars

\* a request faulted at its second entry and the first entry's update of a
\* stored work order is not in the store
BulkAtomicWitness ==
    /\ req.op = "bulk_update_work_orders"
    /\ Len(req.updates) = 2
    /\ EntryFound(workOrders, req.updates[1])
    /\ "id" \notin DOMAIN req.updates[2]
    /\ resp.status = 500
    /\ \E j \in 1..Len(req.updates[1].updates) :
          workOrders[req.updates[1].id][req.updates[1].updates[j][1]]
              # req.updates[1].updates[j][2]

\* the items are in an order in which no timestamp is followed by a later one
Descending(items) ==
    \A i, j \in 1..Len(items) : i < j => items[i].timestamp.iso >= items[j].timestamp.iso

\* C17: with the store fixed, each page of a notification list is ordered
\* newest first, and no item of a page is older than an item of the next page
NewestFirstAcrossPages ==
    req.op = "get_notifications" =>
        /\ resp.status = 200 => Descending(resp.body.items)
        /\ \A size \in 1..MaxLimit, n \in 1..Cardinality(DOMAIN notifications) :
              \A page \in ListResponses(req, PageOf(req.args, n, size)),
                 next \in ListResponses(req, PageOf(req.args, n + 1, size)) :
                    /\ page.status = 200
                    /\ Descending(page.body.items \o next.body.items)

\* a page that holds notifications of different timestamps
NewestFirstAcrossPagesWitness ==
    /\ req.op = "get_notifications"
    /\ resp.status = 200
    /\ Len(resp.body.items) = 2
    /\ resp.body.items[1].timestamp.iso > resp.body.items[2].timestamp.iso
    /\ resp.body.hasNext

-----------------------------------------------------------------------------
(* Field maps that name the stock level *)

\* levels below 0, within the thresholds, and above max_stock of the seeds
PatchedLevels == {-2, 2, MaxStock}

\* field maps with the stock level under its external and its stored name
StockPatches ==
    {<< <<"stockLevel", v>> >> : v \in PatchedLevels}
        \cup {<< <<"stock_level", v>> >> : v \in PatchedLevels}
        \cup {<< <<"stock_level", 2>>, <<"stockLevel", -2>> >>,
              << <<"condition", "Refurbished">> >>}

\* PATCH and GET on the seeded parts
NextStockPatch ==
    \/ \E id \in PartIds, items \in StockPatches : UpdatePart(id, items)
    \/ \E id \in PartIds : GetPart(id)
    \/ Tick

SpecStockPatch == InitSeeded /\ [][NextStockPatch]_vars

\* the positions of the field map that name the stock level
StockKeys(items) == {i \in 1..Len(items) : items[i][1] \in {"stockLevel", "stock_level"}}

\* C18: a PATCH of a part that names the stock level stores the supplied
\* value as it is, below 0 or above max_stock included, and returns it
PatchStoresStockAsGiven ==
    [][(/\ req'.op = "update_part"
        /\ req'.id \in DOMAIN parts
        /\ StockKeys(req'.data) # {}
        /\ UpdatePart(req'.id, req'.data))
           => LET last == CHOOSE i \in StockKeys(req'.data) :
                              \A j \in StockKeys(req'.data) : j <= i
                  given == req'.data[last][2]
              IN /\ resp'.status = 200
                 /\ resp'.body.stockLevel = given
                 /\ parts' = [parts EXCEPT ![req'.id].stock_level = given]]_vars

\* one part holds a level below 0, the other a level above its max_stock
PatchStoresStockAsGivenWitness ==
    /\ req.op = "update_part"
    /\ resp.status = 200
    /\ parts[P1].stock_level < 0
    /\ parts[P2].stock_level > parts[P2].max_stock

-----------------------------------------------------------------------------
(* Requests of all three kinds on the seeded tables *)

\* a bulk request on the work order that the notification N3 names
ReferredBulkRequest == << [id |-> W3, updates |-> << <<"priority", "Urgent">> >>] >>

\* writes on every table
NextAggregates ==
    \/ \E data \in WorkOrderBodies : CreateWorkOrder(data)
    \/ \E id \in {W1, W3} : UpdateWorkOrder(id, << <<"status", "Completed">> >>)
    \/ \E id \in {W1, W3} : DeleteWorkOrder(id)
    \/ BulkUpdateWorkOrders(ReferredBulkRequest)
    \/ \E data \in PartBodies : CreatePart(data)
    \/ UpdatePart(P1, << <<"condition", "Refurbished">> >>)
    \/ DeletePart(P1)
    \/ UpdateStock(P1, 1, "subtract")
    \/ MarkNotificationRead(N3)
    \/ MarkAllNotificationsRead
    \/ DeleteNotification(N3)

SpecAggregates == InitSeeded /\ [][NextAggregates]_vars

\* C19: a request on work orders changes no part and no notification, also
\* not the notifications that name the work order; likewise a request on
\* parts or on notifications changes no table of another kind
NoCascade ==
    [][/\ (\/ req'.op = "create_work_order" /\ CreateWorkOrder(req'.data)
           \/ req'.op = "update_work_order" /\ UpdateWorkOrder(req'.id, req'.data)
           \/ req'.op = "delete_work_order" /\ DeleteWorkOrder(req'.id)
           \/ req'.op = "bulk_update_work_orders" /\ BulkUpdateWorkOrders(req'.updates))
              => UNCHANGED <<parts, notifications>>
       /\ (\/ req'.op = "create_part" /\ CreatePart(req'.data)
           \/ req'.op = "update_part" /\ UpdatePart(req'.id, req'.data)
           \/ req'.op = "delete_part" /\ DeletePart(req'.id)
           \/ req'.op = "update_stock"
                 /\ UpdateStock(req'.id, req'.data.quantity, req'.data.operation))
              => UNCHANGED <<workOrders, notifications>>
       /\ (\/ req'.op = "mark_notification_read" /\ MarkNotificationRead(req'.id)
           \/ req'.op = "mark_all_notifications_read" /\ MarkAllNotificationsRead
           \/ req'.op = "delete_notification" /\ DeleteNotification(req'.id))
              => UNCHANGED <<workOrders, parts>>]_vars

\* the work order W3 was deleted and the notification that names it remains
NoCascadeWitness ==
    /\ req.op = "delete_work_order"
    /\ req.id = W3
    /\ resp.status = 200
    /\ W3 \notin DOMAIN workOrders
    /\ N3 \in DOMAIN notifications
    /\ notifications[N3].work_order_id = W3

-----------------------------------------------------------------------------
(* PATCH requests whose field map names the primary key *)

\* field maps that set wo: to a free number, to the number of another stored
\* work order, and to the number the row has
RenamingWorkOrderPatches ==
    { << <<"wo", W4>> >>,
      << <<"wo", W2>> >>,
      << <<"wo", W1>>, <<"status", "Completed">> >> }

\* entries of bulk requests that set wo, and one that names the new number
RenamingBulkEntries ==
    { [id |-> W1, updates |-> << <<"wo", W4>> >>],
      [id |-> W2, updates |-> << <<"wo", W1>> >>],
      [id |-> W4, updates |-> << <<"status", "Completed">> >>] }

\* field maps that set the id of a part
RenamingPartPatches ==
    { << <<"id", P3>> >>,
      << <<"id", P2>> >>,
      << <<"id", P1>>, <<"condition", "Refurbished">> >> }

NextRename ==
    \/ \E id \in {W1, W4}, items \in RenamingWorkOrderPatches : UpdateWorkOrder(id, items)
    \/ \E updates \in SeqsUpTo(RenamingBulkEntries, MaxBulk) : BulkUpdateWorkOrders(updates)
    \/ \E id \in {W1, W4} : GetWorkOrder(id)
    \/ \E id \in {P1, P3}, items \in RenamingPartPatches : UpdatePart(id, items)
    \/ \E id \in {P1, P3} : GetPart(id)

SpecRename == InitSeeded /\ [][NextRename]_vars

\* C20: a PATCH of a work order or a part, and a bulk PATCH, leave the set of
\* identifiers in the table as it was, and a row the request named that was
\* in the table is still returned under that identifier
IdentifierNeverChanges ==
    [][/\ (req'.op = "update_work_order" /\ UpdateWorkOrder(req'.id, req'.data))
             => /\ DOMAIN workOrders' = DOMAIN workOrders
                /\ req'.id \in DOMAIN workOrders
                      => GetWorkOrderResponse(workOrders', req'.id).status = 200
       /\ (req'.op = "update_part" /\ UpdatePart(req'.id, req'.data))
             => /\ DOMAIN parts' = DOMAIN parts
                /\ req'.id \in DOMAIN parts
                      => GetPartResponse(parts', req'.id).status = 200
       /\ (req'.op = "bulk_update_work_orders" /\ BulkUpdateWorkOrders(req'.updates))
             => /\ DOMAIN workOrders' = DOMAIN workOrders
                /\ \A i \in 1..Len(req'.updates) :
                      req'.updates[i].id \in DOMAIN workOrders
                         => GetWorkOrderResponse(workOrders', req'.updates[i].id).status
                               = 200]_vars

-----------------------------------------------------------------------------
(* The read flag under every kind of request *)

\* the notification routes, with requests on the work order that N3 names and
\* on a part in between
NextReadFlag ==
    \/ NextNotif
    \/ UpdateWorkOrder(W3, << <<"status", "Completed">> >>)
    \/ DeleteWorkOrder(W3)
    \/ UpdateStock(P1, 1, "subtract")

SpecReadFlag == InitSeeded /\ [][NextReadFlag]_vars

\* C21: no request adds a notification or sets a read flag back to false: a
\* notification that is read stays read until it is deleted; marking a read
\* notification again changes nothing and answers as the first time
ReadIsMonotonic ==
    [][/\ DOMAIN notifications' \subseteq DOMAIN notifications
       /\ \A id \in DOMAIN notifications' :
             notifications[id].read => notifications'[id].read
       /\ (/\ req'.op = "mark_notification_read"
           /\ MarkNotificationRead(req'.id)
           /\ req'.id \in DOMAIN notifications
           /\ notifications[req'.id].read)
              => /\ notifications' = notifications
                 /\ resp' = Response("mark_notification_read", 200,
                                     NotificationToDict(notifications[req'.id]))]_vars

\* N1 was marked read by itself (N3 is unread), N2 and the work order W3 were
\* deleted, and a list is served: N1 is still read
ReadIsMonotonicWitness ==
    /\ req.op = "get_notifications"
    /\ N1 \in DOMAIN notifications
    /\ notifications[N1].read
    /\ N2 \notin DOMAIN notifications
    /\ N3 \in DOMAIN notifications
    /\ ~notifications[N3].read
    /\ W3 \notin DOMAIN workOrders

-----------------------------------------------------------------------------
(* Bulk requests that name a work order more than once *)

\* entries on the seeded work orders that set the same fields to different
\* values, under the column name and under the name of the JSON record, and
\* an entry on a number no work order has
RepeatedBulkEntries ==
    { [id |-> W1, updates |-> << <<"status", "Completed">>, <<"priority", "Urgent">> >>],
      [id |-> W1, updates |-> << <<"status", "Cancelled">> >>],
      [id |-> W1, updates |-> << <<"sla_category", "Urgent">> >>],
      [id |-> W1, updates |-> << <<"slaCategory", "Routine">> >>],
      [id |-> W2, updates |-> << <<"status", "Cancelled">> >>],
      [id |-> W4, updates |-> << <<"status", "Completed">> >>] }

NextRepeat ==
    \/ \E updates \in SeqsUpTo(RepeatedBulkEntries, MaxBulk) : BulkUpdateWorkOrders(updates)
    \/ \E id \in WoIds : GetWorkOrder(id)

SpecRepeat == InitSeeded /\ [][NextRepeat]_vars

\* the column a key of a field map sets
ColumnOf(key) ==
    IF key = "recommendedAction" THEN "recommended_action"
    ELSE IF key = "partsRequired" THEN "parts_required"
    ELSE IF key = "slaCategory" THEN "sla_category"
    ELSE key

RECURSIVE AppliedInOrder(_, _, _, _)
\* the row after the field maps of the entries that name id, in list order
AppliedInOrder(row, id, updates, t) ==
    IF updates = <<>> THEN row
    ELSE AppliedInOrder(IF Head(updates).id = id
                        THEN WorkOrderPatched(row, Head(updates).updates, t)
                        ELSE row,
                        id, Tail(updates), t)

\* C22: a bulk update applies its entries in list order: a row named by
\* several entries ends as the field maps applied one after another leave it,
\* the last value given for a field is the stored one, and the answer holds one
\* record per found entry, in list order, each showing the row's final state
BulkInListOrder ==
    [][(/\ req'.op = "bulk_update_work_orders"
        /\ BulkUpdateWorkOrders(req'.updates))
           => LET updates == req'.updates
                  found == SelectSeq([i \in 1..Len(updates) |-> i],
                                     LAMBDA i : updates[i].id \in DOMAIN workOrders)
              IN /\ resp'.status = 200
                 /\ DOMAIN workOrders' = DOMAIN workOrders
                 /\ \A id \in DOMAIN workOrders :
                       workOrders'[id] =
                          IF \E k \in 1..Len(found) : updates[found[k]].id = id
                          THEN AppliedInOrder(workOrders[id], id, updates, now)
                          ELSE workOrders[id]
                 /\ \A k \in 1..Len(found) :
                       \A j \in 1..Len(updates[found[k]].updates) :
                          LET i == found[k]
                              item == updates[i].updates[j]
                              later == \E i2 \in 1..Len(updates) :
                                          \E j2 \in 1..Len(updates[i2].updates) :
                                             /\ updates[i2].id = updates[i].id
                                             /\ i2 > i \/ (i2 = i /\ j2 > j)
                                             /\ ColumnOf(updates[i2].updates[j2][1])
                                                   = ColumnOf(item[1])
                          IN ~later => workOrders'[updates[i].id][ColumnOf(item[1])]
                                          = item[2]
                 /\ Len(resp'.body) = Len(found)
                 /\ \A k \in 1..Len(found) :
                       resp'.body[k] = WorkOrderToDict(workOrders'[updates[found[k]].id])]_vars

\* two entries named one stored work order and set its status to different
\* values: two equal records, with the status of the second entry
BulkInListOrderWitness ==
    /\ req.op = "bulk_update_work_orders"
    /\ Len(req.updates) = 2
    /\ req.updates[1].id = req.updates[2].id
    /\ req.updates[1].updates[1] = <<"status", "Completed">>
    /\ req.updates[2].updates[1] = <<"status", "Cancelled">>
    /\ resp.status = 200
    /\ Len(resp.body) = 2
    /\ resp.body[1] = resp.body[2]
    /\ resp.body[1].status = "Cancelled"
    /\ workOrders[req.updates[1].id].status = "Cancelled"
    /\ workOrders[req.updates[1].id].priority = "Urgent"

====
